---- MODULE Spec2Model ----
\* Keyword scraper: the request scheduler of src/server.js (p-limit with three
\* slots around processUrl) and the browser pool and extraction pipeline of
\* the scraper module (src/unnamed/part_000).
EXTENDS Integers, Sequences, FiniteSets, TLC

\* ------------------------------------------------------------------ bounds
\* Accepted submissions to POST /extract of src/server.js.
MaxRequests == 14
\* Calls of processUrl made through the handler of the scraper's own server.
MaxCalls == 4
\* Calls of processUrl made while every site is tried and the clock runs.
PipeCalls == 1
\* Ticks of the wall clock (Date.now()).
MaxClock == 2
\* Fragments a document handed to extractKeywordsFromHtml is made of.
MaxHtmlPieces == 2
\* Matches of '.p_.si34.span' in the frame handed to extractSurfaceKeywords.
MaxElements == 12

\* ------------------------------------------------------- program constants
\* pLimit(3)
CONCURRENCY == 3
MAX_QUEUED == 10
MAX_BROWSERS == 3
\* elements.slice(0, 10) and the ten k-values of extractSurfaceKeywords
MAX_SURFACE == 10

\* Request bodies: the url field absent, not parseable by new URL(), valid.
Urls == {"", "not a url", "http://a.example/"}

\* new URL(url) throws on anything that is not an absolute URL.
IsValidUrl(u) == u = "http://a.example/"

Requests == 1..MaxRequests
Calls == 1..MaxCalls

\* ------------------------------------------------------- strings of the page
\* A string is a sequence of atoms; the delimiters of extractKeywordsFromHtml
\* are spelled with the atoms they share ("&" ends a terms= value and starts
\* every entity), so that overlapping delimiters overlap in the model too.
IndexFrom(s, pat, from) ==
  LET hits == {i \in from..(Len(s) - Len(pat) + 1) : SubSeq(s, i, i + Len(pat) - 1) = pat}
  IN IF hits = {} THEN 0 ELSE CHOOSE i \in hits : \A k \in hits : i <= k

\* String.prototype.indexOf, 1-based; 0 stands for -1.
IndexOf(s, pat) == IndexFrom(s, pat, 1)

IsSpace(a) == a = " "

\* String.prototype.trim
Trim(s) ==
  LET keep == {i \in 1..Len(s) : ~IsSpace(s[i])}
  IN IF keep = {} THEN <<>>
     ELSE SubSeq(s, CHOOSE i \in keep : \A k \in keep : i <= k,
                    CHOOSE i \in keep : \A k \in keep : i >= k)

\* const delimiters of extractKeywordsFromHtml, in the order of the source.
delimiters == <<
  << <<"&", "quot;", "terms", "&", "quot;", ":", "&", "quot;">>, <<"&", "quot;", ",">> >>,
  << <<"\"", "terms", "\"", ":", "\"">>, <<"\"", ",">> >>,
  << <<"terms", "=">>, <<"&">> >>,
  << <<"\"", "keyWords", "\"", ":", "\"">>, <<"\"", ",">> >>,
  << <<"\"", "keywords", "\"", ":", "\"">>, <<"\"", ",">> >> >>

\* The text one delimiter pair yields, <<>> when the pair does not qualify.
DelimitedText(htmlContent, pair) ==
  LET startIndex == IndexOf(htmlContent, pair[1])
  IN IF startIndex = 0 THEN <<>>
     ELSE LET afterStart == SubSeq(htmlContent, startIndex + Len(pair[1]), Len(htmlContent))
              endIndex == IndexOf(afterStart, pair[2])
          IN IF endIndex = 0 THEN <<>>
             ELSE Trim(SubSeq(afterStart, 1, endIndex - 1))

\* The loop going on after a match, so that the last qualifying pair wins.
RECURSIVE ScanDelimitersLast(_, _)
ScanDelimitersLast(htmlContent, k) ==
  IF k > Len(delimiters) THEN <<>>
  ELSE LET later == ScanDelimitersLast(htmlContent, k + 1)
       IN IF later # <<>> THEN later ELSE DelimitedText(htmlContent, delimiters[k])

\* The for loop over the delimiter pairs, from pair k on.
RECURSIVE ScanDelimiters(_, _)
ScanDelimiters(htmlContent, k) ==
  IF k > Len(delimiters) THEN <<>>
  ELSE LET keywords == DelimitedText(htmlContent, delimiters[k])
       IN IF keywords # <<>> THEN keywords ELSE ScanDelimiters(htmlContent, k + 1)

extractKeywordsFromHtml(htmlContent) ==
  IF htmlContent = <<>> THEN <<>> ELSE ScanDelimiters(htmlContent, 1)

\* Array.prototype.join(', ') over the non-empty values, in order.
RECURSIVE JoinNonEmpty(_)
JoinNonEmpty(values) ==
  IF values = <<>> THEN <<>>
  ELSE LET rest == JoinNonEmpty(Tail(values))
       IN IF Trim(Head(values)) = <<>> THEN rest
          ELSE IF rest = <<>> THEN Trim(Head(values))
          ELSE Trim(Head(values)) \o <<",", " ">> \o rest

\* The strategy with elements.slice(-10): the last ten matches are read.
extractSurfaceKeywordsLastTen(frame) ==
  LET limitedElements ==
        IF frame.kind = "frame"
          THEN SubSeq(frame.elements,
                      IF Len(frame.elements) < MAX_SURFACE THEN 1
                      ELSE Len(frame.elements) - MAX_SURFACE + 1,
                      Len(frame.elements))
          ELSE <<>>
      kValues == [i \in 1..MAX_SURFACE |->
                    IF i <= Len(limitedElements) /\ limitedElements[i].ok
                      THEN Trim(limitedElements[i].text)
                      ELSE <<>>]
  IN JoinNonEmpty(kValues)

\* What the page shows of the frame #master-1: kind is "absent" (the wait for
\* the selector times out), "noelement", "nocontent" (contentFrame() is null),
\* "throw" (a page command fails) or "frame"; elements are the matches of
\* '.p_.si34.span' in discovery order, each with its text and whether reading
\* it succeeds (ok).
extractSurfaceKeywords(frame) ==
  LET limitedElements ==
        IF frame.kind = "frame"
          THEN SubSeq(frame.elements, 1,
                      IF Len(frame.elements) < MAX_SURFACE THEN Len(frame.elements)
                      ELSE MAX_SURFACE)
          ELSE <<>>
      kValues == [i \in 1..MAX_SURFACE |->
                    IF i <= Len(limitedElements) /\ limitedElements[i].ok
                      THEN Trim(limitedElements[i].text)
                      ELSE <<>>]
  IN JoinNonEmpty(kValues)

\* ------------------------------------------------------ the pipeline's result
\* The record processUrl returns.
Success(scrapedKeywords, surfaceKeywords, elapsed) ==
  [scraped_keywords |-> scrapedKeywords, surface_keywords |-> surfaceKeywords,
   success |-> TRUE, error |-> "", processing_time_ms |-> elapsed]

\* catch (timeoutError) around page.goto and the settle delay.
NavigationFailure(message, elapsed) ==
  [scraped_keywords |-> <<>>, surface_keywords |-> <<>>,
   success |-> FALSE, error |-> "Timeout: " \o message, processing_time_ms |-> elapsed]

\* The catch block reading a property the error does not have.
FailureBlank(message, elapsed) ==
  [scraped_keywords |-> <<>>, surface_keywords |-> <<>>,
   success |-> FALSE, error |-> "", processing_time_ms |-> elapsed]

\* catch (error) around the whole of processUrl.
Failure(message, elapsed) ==
  [scraped_keywords |-> <<>>, surface_keywords |-> <<>>,
   success |-> FALSE, error |-> message, processing_time_ms |-> elapsed]

NoResult == [scraped_keywords |-> <<>>, surface_keywords |-> <<>>,
             success |-> FALSE, error |-> "(none)", processing_time_ms |-> 0]

\* The messages of the errors puppeteer throws.
TargetClosed == "Protocol error: Target closed"
NavigationTimeout == "Navigation timeout of 15000 ms exceeded"
LaunchFailed == "Failed to launch the browser process"

\* The catch around page.goto and the settle delay with no return in it.
NavigationNeverFails(site) == FALSE

\* page.goto or the two second delay after it throws.
NavigationFails(site) == site.nav # "ok"

\* if (!scrapedKeywords && !surfaceKeywords)
NeedsRetry(scrapedKeywords, surfaceKeywords) ==
  scrapedKeywords = <<>> /\ surfaceKeywords = <<>>

\* processUrl from browser.newPage() to the value it returns, for a site that
\* answers as `site` says: fault names the one browser command that throws
\* ("none", "newPage", "setup", "content", "settle2", "content2"), nav whether
\* page.goto and the settle delay succeed, html and frame the document and the
\* frame on the first and the second pass, consent whether acceptCookies
\* finds an element to click. No step between newPage and the finally block
\* touches the pool, so the steps are taken together. The value is the record
\* returned, the page left to close ("none" when newPage threw) and the
\* browser commands issued, in order.
ProcessPage(site, elapsed) ==
  IF site.fault = "newPage"
    THEN [result |-> Failure(TargetClosed, elapsed), page |-> "none", ops |-> <<"newPage">>]
  ELSE IF site.fault = "setup"
    THEN [result |-> Failure(TargetClosed, elapsed), page |-> "open",
          ops |-> <<"newPage", "setup">>]
  ELSE IF NavigationFails(site)
    THEN [result |-> NavigationFailure(NavigationTimeout, elapsed), page |-> "open",
          ops |-> <<"newPage", "setup", "goto">>]
  ELSE IF site.fault = "content"
    THEN [result |-> Failure(TargetClosed, elapsed), page |-> "open",
          ops |-> <<"newPage", "setup", "goto", "content">>]
  ELSE
    LET scrapedKeywords == extractKeywordsFromHtml(site.html[1])
        surfaceKeywords == extractSurfaceKeywords(site.frame[1])
        first == <<"newPage", "setup", "goto", "content", "scan", "surface">>
        cookies == IF site.consent THEN <<"acceptCookies", "click">> ELSE <<"acceptCookies">>
    IN IF NeedsRetry(scrapedKeywords, surfaceKeywords)
         THEN IF site.fault = "settle2"
                THEN [result |-> Failure(TargetClosed, elapsed), page |-> "open",
                      ops |-> first \o cookies \o <<"settle">>]
              ELSE IF site.fault = "content2"
                THEN [result |-> Failure(TargetClosed, elapsed), page |-> "open",
                      ops |-> first \o cookies \o <<"settle", "content">>]
              ELSE [result |-> Success(extractKeywordsFromHtml(site.html[2]),
                                       extractSurfaceKeywords(site.frame[2]), elapsed),
                    page |-> "open",
                    ops |-> first \o cookies \o <<"settle", "content", "scan", "surface">>]
         ELSE [result |-> Success(scrapedKeywords, surfaceKeywords, elapsed),
               page |-> "open", ops |-> first]

VARIABLES
  \* src/server.js
  activeRequests,   \* let activeRequests
  queuedRequests,   \* let queuedRequests
  limitQueue,       \* p-limit: the calls waiting for a slot, oldest first
  activeCount,      \* p-limit: the calls whose function has been started
  jobState,         \* per accepted request: "none" | "queued" | "running" | "done"
  lastStatus        \* HTTP status of the response sent last, 0 before any

VARIABLES
  \* the scraper module (src/unnamed/part_000)
  browserPool,      \* let browserPool: the idle sessions, the last one is popped first
  activeBrowsers,   \* let activeBrowsers
  sess,             \* per session: "none" | "alive" | "dead" | "closed"
  openPages,        \* the pages open in the sessions (newPage without close)
  pc,               \* per call of processUrl: where it is suspended
  cand,             \* getBrowser: the session popped and under browser.version(), or 0
  browser,          \* processUrl: let browser, 0 for null
  page,             \* processUrl: let page, "none" | "open"
  result,           \* the record the try block returned, held while finally runs
  ops,              \* the browser commands the call issued
  startTime,        \* processUrl: const startTime
  now,              \* Date.now()
  cleanupPc,        \* cleanup: "idle" | "closing" | "done"
  cleanupList,      \* cleanup: const browsers, the copy of the free-list
  cleanupIdx,       \* cleanup: how many of them the loop has closed
  lastResult,       \* the record of the call that resolved last
  lastOps           \* and the browser commands it issued

VARIABLES
  \* the two extraction strategies called on their own
  pageSource,       \* the argument of extractKeywordsFromHtml
  scrapedKeywords,  \* the string it returned
  iframe,           \* what the page shows of #master-1 to extractSurfaceKeywords
  surfaceKeywords,  \* the string it returned
  returned          \* which of the two has returned: "none" | "html" | "surface"

schedVars == <<activeRequests, queuedRequests, limitQueue, activeCount, jobState>>

poolVars == <<browserPool, activeBrowsers, sess, openPages>>

callVars == <<pc, cand, browser, page, result, ops, startTime>>

cleanupVars == <<cleanupPc, cleanupList, cleanupIdx>>

extractVars == <<pageSource, scrapedKeywords, iframe, surfaceKeywords, returned>>

vars == <<schedVars, lastStatus, poolVars, callVars, cleanupVars, now, lastResult, lastOps,
          extractVars>>

\* ---------------------------------------------------------------- p-limit
\* limit(fn): the call is appended to the queue; a queued call is started
\* while fewer than CONCURRENCY are active. Returns <<queue, count, started>>.
LimitAdmitLifo(queue, count) ==
  IF count < CONCURRENCY /\ Len(queue) > 0
    THEN <<SubSeq(queue, 1, Len(queue) - 1), count + 1, {queue[Len(queue)]}>>
    ELSE <<queue, count, {}>>

LimitAdmit(queue, count) ==
  IF count < CONCURRENCY /\ Len(queue) > 0
    THEN <<Tail(queue), count + 1, {Head(queue)}>>
    ELSE <<queue, count, {}>>

\* The id the next accepted request gets: requests are numbered as they arrive.
NextRequest == CHOOSE j \in Requests : jobState[j] = "none" /\
                 \A k \in Requests : k < j => jobState[k] # "none"

InitSched ==
  /\ activeRequests = 0
  /\ queuedRequests = 0
  /\ limitQueue = <<>>
  /\ activeCount = 0
  /\ jobState = [j \in Requests |-> "none"]
  /\ lastStatus = 0

\* The handler with processUrl called outside limit(): every accepted request
\* starts at once.
ExtractUnlimited(url) ==
  /\ UNCHANGED <<poolVars, callVars, cleanupVars, extractVars, now, lastResult, lastOps>>
  /\ IF queuedRequests >= MAX_QUEUED \/ url = "" \/ ~IsValidUrl(url)
       THEN /\ lastStatus' = IF queuedRequests >= MAX_QUEUED THEN 503 ELSE 400
            /\ UNCHANGED <<activeRequests, queuedRequests, limitQueue, activeCount, jobState>>
       ELSE /\ \E j \in Requests : jobState[j] = "none"
            /\ activeRequests' = activeRequests + 1
            /\ activeCount' = activeCount + 1
            /\ jobState' = [jobState EXCEPT ![NextRequest] = "running"]
            /\ UNCHANGED <<queuedRequests, limitQueue, lastStatus>>

\* The handler returning 400 for an unparseable URL without queuedRequests--.
ExtractKeepsQueued(url) ==
  /\ UNCHANGED <<poolVars, callVars, cleanupVars, extractVars, now, lastResult, lastOps>>
  /\ IF queuedRequests >= MAX_QUEUED
    THEN /\ lastStatus' = 503
         /\ UNCHANGED <<activeRequests, queuedRequests, limitQueue, activeCount, jobState>>
    ELSE LET q1 == queuedRequests + 1 IN
      IF url = "" \/ ~IsValidUrl(url)
        THEN /\ queuedRequests' = IF url = "" THEN q1 - 1 ELSE q1
             /\ lastStatus' = 400
             /\ UNCHANGED <<activeRequests, limitQueue, activeCount, jobState>>
        ELSE /\ \E j \in Requests : jobState[j] = "none"
             /\ LET j == NextRequest
                    adm == LimitAdmit(Append(limitQueue, j), activeCount)
                IN /\ queuedRequests' = q1 - 1
                   /\ activeRequests' = activeRequests + 1
                   /\ limitQueue' = adm[1]
                   /\ activeCount' = adm[2]
                   /\ jobState' = [k \in Requests |->
                                     IF k \in adm[3] THEN "running"
                                     ELSE IF k = j THEN "queued"
                                     ELSE jobState[k]]
             /\ UNCHANGED lastStatus

\* app.post('/extract') of src/server.js up to its await: the handler runs
\* without suspension from the queue check to the call of limit().
Extract(url) ==
  /\ UNCHANGED <<poolVars, callVars, cleanupVars, extractVars, now, lastResult, lastOps>>
  /\ IF queuedRequests >= MAX_QUEUED
    THEN /\ lastStatus' = 503
         /\ UNCHANGED <<activeRequests, queuedRequests, limitQueue, activeCount, jobState>>
    ELSE LET q1 == queuedRequests + 1 IN
      IF url = "" \/ ~IsValidUrl(url)
        THEN /\ queuedRequests' = q1 - 1
             /\ lastStatus' = 400
             /\ UNCHANGED <<activeRequests, limitQueue, activeCount, jobState>>
        ELSE /\ \E j \in Requests : jobState[j] = "none"
             /\ LET j == NextRequest
                    adm == LimitAdmit(Append(limitQueue, j), activeCount)
                IN /\ queuedRequests' = q1 - 1
                   /\ activeRequests' = activeRequests + 1
                   /\ limitQueue' = adm[1]
                   /\ activeCount' = adm[2]
                   /\ jobState' = [k \in Requests |->
                                     IF k \in adm[3] THEN "running"
                                     ELSE IF k = j THEN "queued"
                                     ELSE jobState[k]]
             /\ UNCHANGED lastStatus

\* processUrl(url, country) of request j resolves (it never rejects): p-limit
\* frees the slot and starts the oldest waiting call, and the handler resumes
\* after its await, decrements activeRequests and sends the response.
Settle(j) ==
  /\ jobState[j] = "running"
  /\ LET adm == LimitAdmit(limitQueue, activeCount - 1)
     IN /\ limitQueue' = adm[1]
        /\ activeCount' = adm[2]
        /\ jobState' = [k \in Requests |->
                          IF k = j THEN "done"
                          ELSE IF k \in adm[3] THEN "running"
                          ELSE jobState[k]]
  /\ activeRequests' = activeRequests - 1
  /\ lastStatus' = 200
  /\ UNCHANGED <<queuedRequests, poolVars, callVars, cleanupVars, extractVars, now,
                 lastResult, lastOps>>

\* ------------------------------------------------------------- the browser pool
InitPool ==
  /\ browserPool = <<>>
  /\ activeBrowsers = 0
  /\ sess = [b \in Calls |-> "none"]
  /\ pc = [c \in Calls |-> "idle"]
  /\ cand = [c \in Calls |-> 0]
  /\ browser = [c \in Calls |-> 0]
  /\ page = [c \in Calls |-> "none"]
  /\ result = [c \in Calls |-> NoResult]
  /\ ops = [c \in Calls |-> <<>>]
  /\ openPages = 0
  /\ startTime = [c \in Calls |-> 0]
  /\ now = 0
  /\ cleanupPc = "idle"
  /\ cleanupList = <<>>
  /\ cleanupIdx = 0
  /\ lastResult = NoResult
  /\ lastOps = <<>>

\* getBrowser reading the last idle session without taking it off the list.
GetBrowserPeek(c, fromPool) ==
  IF fromPool /\ Len(browserPool) > 0
    THEN /\ cand' = [cand EXCEPT ![c] = browserPool[Len(browserPool)]]
         /\ pc' = [pc EXCEPT ![c] = "version"]
         /\ UNCHANGED <<browserPool, activeBrowsers>>
    ELSE IF activeBrowsers < MAX_BROWSERS
      THEN /\ activeBrowsers' = activeBrowsers + 1
           /\ pc' = [pc EXCEPT ![c] = "launch"]
           /\ cand' = [cand EXCEPT ![c] = 0]
           /\ UNCHANGED browserPool
      ELSE /\ pc' = [pc EXCEPT ![c] = "sleep"]
           /\ cand' = [cand EXCEPT ![c] = 0]
           /\ UNCHANGED <<browserPool, activeBrowsers>>

\* getBrowser comparing the counter with <= instead of <.
GetBrowserOver(c, fromPool) ==
  IF fromPool /\ Len(browserPool) > 0
    THEN /\ cand' = [cand EXCEPT ![c] = browserPool[Len(browserPool)]]
         /\ browserPool' = SubSeq(browserPool, 1, Len(browserPool) - 1)
         /\ pc' = [pc EXCEPT ![c] = "version"]
         /\ UNCHANGED activeBrowsers
    ELSE IF activeBrowsers <= MAX_BROWSERS
      THEN /\ activeBrowsers' = activeBrowsers + 1
           /\ pc' = [pc EXCEPT ![c] = "launch"]
           /\ cand' = [cand EXCEPT ![c] = 0]
           /\ UNCHANGED browserPool
      ELSE /\ pc' = [pc EXCEPT ![c] = "sleep"]
           /\ cand' = [cand EXCEPT ![c] = 0]
           /\ UNCHANGED <<browserPool, activeBrowsers>>

\* getBrowser up to its first await, for call c. fromPool is FALSE when the
\* function resumes after a failed browser.version(): the pool is not looked
\* at again.
GetBrowser(c, fromPool) ==
  IF fromPool /\ Len(browserPool) > 0
    THEN /\ cand' = [cand EXCEPT ![c] = browserPool[Len(browserPool)]]
         /\ browserPool' = SubSeq(browserPool, 1, Len(browserPool) - 1)
         /\ pc' = [pc EXCEPT ![c] = "version"]
         /\ UNCHANGED activeBrowsers
    ELSE IF activeBrowsers < MAX_BROWSERS
      THEN /\ activeBrowsers' = activeBrowsers + 1
           /\ pc' = [pc EXCEPT ![c] = "launch"]
           /\ cand' = [cand EXCEPT ![c] = 0]
           /\ UNCHANGED browserPool
      ELSE /\ pc' = [pc EXCEPT ![c] = "sleep"]
           /\ cand' = [cand EXCEPT ![c] = 0]
           /\ UNCHANGED <<browserPool, activeBrowsers>>

\* returnBrowser(browser)
returnBrowser(b) ==
  IF b # 0 /\ Len(browserPool) < MAX_BROWSERS
    THEN /\ browserPool' = Append(browserPool, b)
         /\ UNCHANGED <<activeBrowsers, sess>>
    ELSE IF b # 0
      THEN /\ sess' = [sess EXCEPT ![b] = "closed"]
           /\ activeBrowsers' = activeBrowsers - 1
           /\ UNCHANGED browserPool
      ELSE UNCHANGED <<browserPool, activeBrowsers, sess>>

\* The call whose processUrl starts next: calls are numbered as they are made.
NextCall == CHOOSE c \in Calls : pc[c] = "idle" /\ \A k \in Calls : k < c => pc[k] # "idle"

\* processUrl resolves with record r and its locals are gone; the handler of
\* the scraper's server resumes after its await and sends the response.
Resolve(c, r, o) ==
  /\ pc' = [pc EXCEPT ![c] = "done"]
  /\ browser' = [browser EXCEPT ![c] = 0]
  /\ page' = [page EXCEPT ![c] = "none"]
  /\ result' = [result EXCEPT ![c] = NoResult]
  /\ ops' = [ops EXCEPT ![c] = <<>>]
  /\ lastResult' = r
  /\ lastOps' = o

\* app.post('/extract') of the scraper's own server: validation, then
\* processUrl up to the first await of getBrowser.
ExtractDirect(url) ==
  /\ UNCHANGED <<schedVars, lastStatus, extractVars, cleanupVars, now, browser, page, result, ops,
                 lastResult, lastOps, sess, openPages>>
  /\ IF url = "" \/ ~IsValidUrl(url)
       THEN UNCHANGED <<browserPool, activeBrowsers, pc, cand, startTime>>
       ELSE /\ \E c \in Calls : pc[c] = "idle"
            /\ startTime' = [startTime EXCEPT ![NextCall] = now]
            /\ GetBrowser(NextCall, TRUE)

\* await browser.version() returns or throws.
Version(c) ==
  /\ pc[c] = "version"
  /\ UNCHANGED <<schedVars, lastStatus, extractVars, cleanupVars, now, page, result, ops,
                 startTime, lastResult, lastOps, sess, openPages>>
  /\ IF sess[cand[c]] = "alive"
       THEN /\ browser' = [browser EXCEPT ![c] = cand[c]]
            /\ cand' = [cand EXCEPT ![c] = 0]
            /\ pc' = [pc EXCEPT ![c] = "work"]
            /\ UNCHANGED <<browserPool, activeBrowsers>>
       ELSE /\ GetBrowser(c, FALSE)
            /\ UNCHANGED browser

\* await puppeteer.launch(...) returns a new session, or throws: the error
\* leaves getBrowser and is caught by processUrl, which resolves at once
\* (page and browser are null in its finally block).
Launch(c, ok) ==
  /\ pc[c] = "launch"
  /\ UNCHANGED <<schedVars, lastStatus, extractVars, cleanupVars, now, startTime, cand,
                 browserPool, activeBrowsers, openPages>>
  /\ IF ok
       THEN /\ sess' = [sess EXCEPT ![c] = "alive"]
            /\ browser' = [browser EXCEPT ![c] = c]
            /\ pc' = [pc EXCEPT ![c] = "work"]
            /\ UNCHANGED <<page, result, ops, lastResult, lastOps>>
       ELSE /\ Resolve(c, Failure(LaunchFailed, now - startTime[c]), <<>>)
            /\ UNCHANGED sess

\* The timer of the one second wait fires and getBrowser calls itself.
Retry(c) ==
  /\ pc[c] = "sleep"
  /\ GetBrowser(c, TRUE)
  /\ UNCHANGED <<schedVars, lastStatus, extractVars, cleanupVars, now, browser, page, result, ops,
                 startTime, lastResult, lastOps, sess, openPages>>

\* The body of processUrl with the session in hand, up to the finally block:
\* with no page to close the finally block returns the session and the call
\* resolves, otherwise it awaits page.close().
Work(c, site) ==
  /\ pc[c] = "work"
  /\ LET out == ProcessPage(site, now - startTime[c])
     IN /\ sess[browser[c]] # "alive" => ~out.result.success
        /\ IF out.page = "none"
             THEN /\ returnBrowser(browser[c])
                  /\ Resolve(c, out.result, out.ops)
                  /\ UNCHANGED openPages
             ELSE /\ page' = [page EXCEPT ![c] = "open"]
                  /\ openPages' = openPages + 1
                  /\ result' = [result EXCEPT ![c] = out.result]
                  /\ ops' = [ops EXCEPT ![c] = out.ops]
                  /\ pc' = [pc EXCEPT ![c] = "closing"]
                  /\ UNCHANGED <<browserPool, activeBrowsers, sess, browser,
                                 lastResult, lastOps>>
  /\ UNCHANGED <<schedVars, lastStatus, extractVars, cleanupVars, now, cand, startTime>>

\* The finally block closing the page and keeping the session.
CloseLeak(c) ==
  /\ pc[c] = "closing"
  /\ openPages' = openPages - 1
  /\ Resolve(c, result[c], ops[c])
  /\ UNCHANGED <<schedVars, lastStatus, extractVars, cleanupVars, now, cand, startTime, browserPool,
                 activeBrowsers, sess>>

\* await page.close().catch(() => {}) is over: the session is returned and
\* the call resolves with the record the try block returned.
Close(c) ==
  /\ pc[c] = "closing"
  /\ openPages' = openPages - 1
  /\ returnBrowser(browser[c])
  /\ Resolve(c, result[c], ops[c])
  /\ UNCHANGED <<schedVars, lastStatus, extractVars, cleanupVars, now, cand, startTime>>

\* A browser process crashes or loses its connection.
SessionDies(b) ==
  /\ sess[b] = "alive"
  /\ sess' = [sess EXCEPT ![b] = "dead"]
  /\ UNCHANGED <<schedVars, lastStatus, extractVars, browserPool, activeBrowsers, openPages, callVars,
                 cleanupVars, now, lastResult, lastOps>>

\* cleanup() up to its first await: the free-list is copied and emptied; with
\* nothing to close the function runs to its end.
CleanupStart ==
  /\ cleanupPc # "closing"
  /\ browserPool' = <<>>
  /\ cleanupIdx' = 0
  /\ IF browserPool = <<>>
       THEN /\ activeBrowsers' = 0
            /\ cleanupList' = <<>>
            /\ cleanupPc' = "done"
       ELSE /\ cleanupPc' = "closing"
            /\ cleanupList' = browserPool
            /\ UNCHANGED activeBrowsers
  /\ UNCHANGED <<schedVars, lastStatus, extractVars, sess, openPages, callVars, now, lastResult, lastOps>>

\* await browser.close() of the next copied session is over; after the last
\* one the counter is reset and the function returns.
CleanupClose ==
  /\ cleanupPc = "closing"
  /\ sess' = [sess EXCEPT ![cleanupList[cleanupIdx + 1]] = "closed"]
  /\ IF cleanupIdx + 1 = Len(cleanupList)
       THEN /\ activeBrowsers' = 0
            /\ cleanupPc' = "done"
            /\ cleanupList' = <<>>
            /\ cleanupIdx' = 0
       ELSE /\ cleanupIdx' = cleanupIdx + 1
            /\ UNCHANGED <<activeBrowsers, cleanupPc, cleanupList>>
  /\ UNCHANGED <<schedVars, lastStatus, extractVars, browserPool, openPages, callVars, now, lastResult,
                 lastOps>>

\* The wall clock advances.
Tick ==
  /\ now < MaxClock
  /\ now' = now + 1
  /\ UNCHANGED <<schedVars, lastStatus, extractVars, poolVars, callVars, cleanupVars, lastResult, lastOps>>

\* --------------------------------------------------------------- the sites
PlainDoc == <<"<", "a", ">">>
TermsDoc == <<"<", "terms", "=", "a", "&", ">">>
Docs == {PlainDoc, TermsDoc}

NoFrame == [kind |-> "absent", elements |-> <<>>]
KeywordFrame == [kind |-> "frame", elements |-> <<[ok |-> TRUE, text |-> <<" ", "b">>]>>]
Frames == {NoFrame, KeywordFrame}

Faults == {"none", "newPage", "setup", "content", "settle2", "content2"}

Site(f, n, h, fr, k) == [fault |-> f, nav |-> n, html |-> h, frame |-> fr, consent |-> k]

\* What a site shows on a pass that processUrl never reaches is left at
\* PlainDoc and NoFrame: it cannot change the outcome. A site whose
\* navigation fails is the exception: it comes bare and with keywords in its
\* document and frame and a consent element, none of which is to be looked at.
Sites ==
  \* a command throws before the first pass, or navigation fails
  {Site(f, "ok", <<PlainDoc, PlainDoc>>, <<NoFrame, NoFrame>>, FALSE) :
     f \in {"newPage", "setup", "content"}}
  \cup {Site("none", "timeout", <<PlainDoc, PlainDoc>>, <<NoFrame, NoFrame>>, FALSE),
        Site("none", "timeout", <<TermsDoc, TermsDoc>>, <<KeywordFrame, KeywordFrame>>, TRUE)}
  \* the first pass decides: keywords are found, or nothing is and the
  \* second pass runs, or a command throws on the way to it
  \cup {Site("none", "ok", <<h1, h2>>, <<f1, f2>>, k) :
          h1 \in Docs, h2 \in Docs, f1 \in Frames, f2 \in Frames, k \in BOOLEAN}
  \cup {Site(f, "ok", <<PlainDoc, PlainDoc>>, <<NoFrame, NoFrame>>, k) :
          f \in {"settle2", "content2"}, k \in BOOLEAN}

\* The sites the pool is exercised with: one that yields keywords and one
\* whose session cannot open a page.
PoolSites ==
  {[fault |-> f, nav |-> "ok", html |-> <<TermsDoc, TermsDoc>>,
    frame |-> <<NoFrame, NoFrame>>, consent |-> FALSE] : f \in {"none", "newPage"}}

\* Neither extraction function has been called on its own.
InitExtract ==
  /\ pageSource = <<>>
  /\ scrapedKeywords = <<>>
  /\ iframe = NoFrame
  /\ surfaceKeywords = <<>>
  /\ returned = "none"

Init == InitSched /\ InitPool /\ InitExtract

\* ------------------------------------------ extractKeywordsFromHtml on its own
\* What stands between the markers of pair k in a fragment: a keyword, a
\* keyword in blanks, nothing, a blank.
PairTexts(k) ==
  LET word == <<"k1", "k2", "k3", "k4", "k5">>[k]
  IN {<<word>>, <<" ", word, " ">>, <<>>, <<" ">>}

\* The fragments of a document: a pair of markers with its text, a start
\* marker whose end marker is missing, markup that holds no marker.
HtmlPieces ==
  UNION {{delimiters[k][1] \o t \o delimiters[k][2] : t \in PairTexts(k)} :
           k \in 1..Len(delimiters)}
  \cup {delimiters[k][1] \o <<"x">> : k \in 1..Len(delimiters)}
  \cup {<<"<", "p", ">">>}

\* The documents made of at most n fragments.
RECURSIVE HtmlOfPieces(_)
HtmlOfPieces(n) ==
  IF n = 0 THEN {<<>>}
  ELSE LET shorter == HtmlOfPieces(n - 1)
       IN shorter \cup {d \o p : d \in shorter, p \in HtmlPieces}

HtmlInputs == HtmlOfPieces(MaxHtmlPieces)

InitHtml ==
  /\ InitSched /\ InitPool
  /\ pageSource \in HtmlInputs
  /\ scrapedKeywords = <<>>
  /\ iframe = NoFrame
  /\ surfaceKeywords = <<>>
  /\ returned = "none"

\* scrapedKeywords = extractKeywordsFromHtml(pageSource)
CallExtractKeywordsFromHtml ==
  /\ scrapedKeywords' = extractKeywordsFromHtml(pageSource)
  /\ returned' = "html"
  /\ UNCHANGED <<schedVars, lastStatus, poolVars, callVars, cleanupVars, now, lastResult,
                 lastOps, pageSource, iframe, surfaceKeywords>>

NextHtml == CallExtractKeywordsFromHtml

SpecHtml == InitHtml /\ [][NextHtml]_vars

\* ------------------------------------------- extractSurfaceKeywords on its own
\* The innerText of the i-th match of '.p_.si34.span': a word of its own, with
\* blanks around it at the odd places.
ElementWord(i) ==
  <<"e1", "e2", "e3", "e4", "e5", "e6", "e7", "e8", "e9", "e10", "e11", "e12", "e13",
    "e14", "e15", "e16">>[i]

ElementText(i) == IF i % 2 = 1 THEN <<" ", ElementWord(i), " ">> ELSE <<ElementWord(i)>>

\* A match that yields no keyword: its text is empty, or blank, or reading
\* it throws.
SilentElements ==
  {[ok |-> TRUE, text |-> <<>>], [ok |-> TRUE, text |-> <<" ">>],
   [ok |-> FALSE, text |-> <<"x">>]}

\* The frames with n matches of which those at the places in silent yield
\* nothing.
FrameOf(n, silent, quiet) ==
  [kind |-> "frame",
   elements |-> [i \in 1..n |-> IF i \in silent THEN quiet
                                ELSE [ok |-> TRUE, text |-> ElementText(i)]]]

\* What extractSurfaceKeywords may find: no frame in one of four ways, or a
\* frame with up to MaxElements matches, at most two of them silent.
SurfaceInputs ==
  {[kind |-> kd, elements |-> <<>>] : kd \in {"absent", "noelement", "nocontent", "throw"}}
  \cup {FrameOf(n, silent, quiet) :
          n \in 0..MaxElements,
          silent \in {sl \in SUBSET (1..MaxElements) : Cardinality(sl) <= 2},
          quiet \in SilentElements}

InitSurface ==
  /\ InitSched /\ InitPool
  /\ pageSource = <<>>
  /\ scrapedKeywords = <<>>
  /\ iframe \in SurfaceInputs
  /\ surfaceKeywords = <<>>
  /\ returned = "none"

\* surfaceKeywords = await extractSurfaceKeywords(page)
CallExtractSurfaceKeywords ==
  /\ surfaceKeywords' = extractSurfaceKeywords(iframe)
  /\ returned' = "surface"
  /\ UNCHANGED <<schedVars, lastStatus, poolVars, callVars, cleanupVars, now, lastResult,
                 lastOps, pageSource, scrapedKeywords, iframe>>

NextSurface == CallExtractSurfaceKeywords

SpecSurface == InitSurface /\ [][NextSurface]_vars

Next ==
  \/ \E url \in Urls : Extract(url)
  \/ \E j \in Requests : Settle(j)

Spec == Init /\ [][Next]_vars

\* The scraper behind its own server: processUrl is called once per request,
\* with no limit, and cleanup runs on a signal while the process lives on.
NextAcquire ==
  \/ \E url \in Urls : ExtractDirect(url)
  \/ \E c \in Calls : Version(c)
  \/ \E c \in Calls, ok \in BOOLEAN : Launch(c, ok)
  \/ \E c \in Calls : Retry(c)
  \/ \E c \in Calls, site \in PoolSites : Work(c, site)
  \/ \E c \in Calls : Close(c)
  \/ \E b \in Calls : SessionDies(b)

SpecAcquire == Init /\ [][NextAcquire]_vars

\* The event loop runs every call that can continue: a settled browser
\* command resumes its call and a due timer fires.
CallStep(c) ==
  \/ Version(c)
  \/ \E ok \in BOOLEAN : Launch(c, ok)
  \/ Retry(c)
  \/ \E site \in PoolSites : Work(c, site)
  \/ Close(c)

FairAcquire == SpecAcquire /\ \A c \in Calls : WF_vars(CallStep(c))

NextPool ==
  \/ NextAcquire
  \/ CleanupStart
  \/ CleanupClose

SpecPool == Init /\ [][NextPool]_vars

\* The pipeline against every site, with the clock running, for the first
\* PipeCalls requests to a fresh pool: the session is launched, never reused.
NextPipe ==
  \/ \E url \in Urls : pc[PipeCalls] = "idle" /\ ExtractDirect(url)
  \/ \E c \in Calls, ok \in BOOLEAN : Launch(c, ok)
  \/ \E c \in Calls, site \in Sites : Work(c, site)
  \/ \E c \in Calls : Close(c)
  \/ \E b \in Calls : SessionDies(b)
  \/ Tick

SpecPipe == Init /\ [][NextPipe]_vars

\* ------------------------------------------------------------ the scheduler
\* Pipeline executions in progress: processUrl started and not yet resolved.
Running == {j \in Requests : jobState[j] = "running"}
\* Accepted requests waiting for a slot of the limiter.
Waiting == {j \in Requests : jobState[j] = "queued"}
Started == {j \in Requests : jobState[j] \in {"running", "done"}}

\* C1: whatever the burst of submissions, at most CONCURRENCY = 3 executions
\* of processUrl are in progress at the same time.
C1_AtMostThreeRunning == Cardinality(Running) <= CONCURRENCY

\* Three executions in progress while later submissions wait for a slot.
C1_Witness == Cardinality(Running) = CONCURRENCY /\ Cardinality(Waiting) >= 2

\* C2: the accepted jobs waiting for a slot never exceed MAX_QUEUED = 10 (a
\* submission arriving with ten waiting is rejected with 503).
C2_WaitingWithinQueueBound == Cardinality(Waiting) <= MAX_QUEUED

\* C3: the running-job counter reported by GET /stats and GET / never
\* exceeds CONCURRENCY = 3.
C3_ActiveRequestsWithinLimit == activeRequests <= CONCURRENCY

\* C4: accepted jobs start in submission order: a job has not started before
\* every job submitted earlier has started.
C4_FifoAdmission ==
  \A j1, j2 \in Requests : (j1 < j2 /\ j2 \in Started) => j1 \in Started

\* A later job has finished while an earlier one still runs, a job admitted
\* from the queue runs and others still wait.
C4_Witness ==
  /\ \E j1, j2 \in Requests : j1 < j2 /\ jobState[j1] = "running" /\ jobState[j2] = "done"
  /\ \E j \in Running : j > CONCURRENCY
  /\ Cardinality(Waiting) >= 2


\* ------------------------------------------------------------------ the pool
\* Sessions launched and not closed.
LiveSessions == {b \in Calls : sess[b] \in {"alive", "dead"}}
InPool(b) == \E i \in 1..Len(browserPool) : browserPool[i] = b
\* The unresolved calls that hold session b, as their browser or under the
\* health check of getBrowser.
Holders(b) == {c \in Calls : pc[c] # "done" /\ (browser[c] = b \/ cand[c] = b)}
CheckedOut == {b \in Calls : Holders(b) # {}}

\* Call c runs getBrowser in this step (on entry, after its wait or after a
\* failed health check) and finds no idle session it can use.
AcquiresWithoutIdle(c) ==
  /\ pc[c] \in {"idle", "sleep", "version"}
  /\ pc'[c] # pc[c]
  /\ IF pc[c] = "version" THEN sess[cand[c]] # "alive" ELSE browserPool = <<>>

\* The calls suspended in puppeteer.launch.
Launching == {c \in Calls : pc[c] = "launch"}

\* C5: with acquires and releases interleaved (no shutdown), the sessions
\* launched and not closed, counting those being launched, never exceed
\* MAX_BROWSERS = 3, and an acquire that finds no idle session with the
\* capacity used up launches nothing and waits.
C5_PoolWithinCapacity ==
  [][/\ Cardinality(LiveSessions') + Cardinality(Launching') <= MAX_BROWSERS
     /\ \A c \in Calls :
          (AcquiresWithoutIdle(c) /\ activeBrowsers >= MAX_BROWSERS)
            => pc'[c] = "sleep" /\ sess' = sess /\ activeBrowsers' = activeBrowsers]_vars

\* Three sessions checked out, none idle, and a fourth call waiting.
C5_Witness ==
  /\ Cardinality(LiveSessions) = MAX_BROWSERS
  /\ Cardinality(CheckedOut) = MAX_BROWSERS
  /\ browserPool = <<>>
  /\ \E c \in Calls : pc[c] = "sleep"

\* C6: no session is held by two unresolved calls of processUrl, and no
\* session is in the idle free-list while a call holds it.
C6_ExclusiveBorrow ==
  \A b \in Calls :
    /\ Cardinality(Holders(b)) <= 1
    /\ InPool(b) => Holders(b) = {}
    /\ Cardinality({i \in 1..Len(browserPool) : browserPool[i] = b}) <= 1

\* Two calls hold sessions, one of them a session another call launched,
\* while a third session is idle.
C6_Witness ==
  /\ \E c1, c2 \in Calls : c1 # c2 /\ browser[c1] # 0 /\ browser[c2] # 0 /\ browser[c1] # c1
  /\ browserPool # <<>>

\* returnBrowser(b) ran exactly once in this step: the session went to the
\* free-list once, or was closed and the counter decremented.
ReleasedOnce(b) ==
  \/ /\ browserPool' = Append(browserPool, b)
     /\ sess' = sess /\ activeBrowsers' = activeBrowsers
  \/ /\ browserPool' = browserPool
     /\ sess[b] # "closed" /\ sess' = [sess EXCEPT ![b] = "closed"]
     /\ activeBrowsers' = activeBrowsers - 1

\* C7: when a call of processUrl resolves, on whatever path, the session it
\* acquired is released exactly once in its finally block and the page it
\* opened is closed; no page stays open without an unresolved call owning it.
C7_ReleaseOnEveryPath ==
  [][/\ \A c \in Calls :
          (pc[c] # "done" /\ pc'[c] = "done")
            => /\ browser[c] # 0 => ReleasedOnce(browser[c])
               /\ page'[c] = "none"
     /\ openPages' = Cardinality({c \in Calls : page'[c] = "open"})]_vars

\* A call resolved after its navigation failed: its session is back in the
\* free-list and its page is closed.
C7_Witness ==
  /\ pc[PipeCalls] = "done"
  /\ lastOps = <<"newPage", "setup", "goto">>
  /\ ~lastResult.success
  /\ InPool(PipeCalls)
  /\ openPages = 0

\* C8: every call of processUrl that has started eventually resolves, also
\* after sessions died, launches failed or the capacity was used up.
C8_EveryCallResolves ==
  \A c \in Calls : (pc[c] # "idle") ~> (pc[c] = "done")

\* The records processUrl has produced: the one returned last and the ones
\* held while a finally block awaits page.close().
Produced == ({lastResult} \cup {result[c] : c \in {k \in Calls : pc[k] = "closing"}}) \ {NoResult}

\* C9: every record processUrl produces has empty keyword fields and a
\* non-empty error when success is false, an empty error when success is
\* true, and a non-negative processing time.
C9_ResultWellFormed ==
  \A r \in Produced :
    /\ ~r.success => r.scraped_keywords = <<>> /\ r.surface_keywords = <<>> /\ r.error # ""
    /\ r.success => r.error = ""
    /\ r.processing_time_ms >= 0

\* A failed navigation reported after the clock advanced.
C9_Witness ==
  /\ ~lastResult.success
  /\ lastResult.error = "Timeout: " \o NavigationTimeout
  /\ lastResult.processing_time_ms > 0

\* A successful record with keywords from both strategies.
C9_WitnessSuccess ==
  /\ lastResult.success
  /\ lastResult.scraped_keywords # <<>>
  /\ lastResult.surface_keywords # <<>>

\* C10: when cleanup() completes, every session it found idle is closed, the
\* free-list is empty and the counter is zero, and no session held by a call
\* has been closed, also when calls release sessions during the shutdown.
C10_ShutdownLeavesPoolEmpty ==
  [][(cleanupPc # "done" /\ cleanupPc' = "done")
       => /\ \A i \in 1..Len(cleanupList) : sess'[cleanupList[i]] = "closed"
          /\ browserPool' = <<>>
          /\ activeBrowsers' = 0
          /\ \A b \in CheckedOut : sess'[b] # "closed"]_vars

\* --------------------------------------------------- failures inside the pool
\* The browser.version() of call c throws in this step: the session it
\* popped is dead.
HealthCheckFails(c) ==
  /\ pc[c] = "version"
  /\ pc'[c] # "version"
  /\ sess[cand[c]] # "alive"

\* C11: when the health check of getBrowser fails, the popped session is not
\* handed to the call, is not put back in browserPool, and activeBrowsers
\* gives up the slot of the dead session (it ends one lower, or unchanged
\* when the same step takes the slot again to launch the replacement).
C11_DeadSessionGivesUpSlot ==
  [][\A c \in Calls :
       HealthCheckFails(c)
         => /\ browser'[c] # cand[c]
            /\ \A i \in 1..Len(browserPool') : browserPool'[i] # cand[c]
            /\ activeBrowsers' =
                 activeBrowsers - 1 + (IF pc'[c] = "launch" THEN 1 ELSE 0)]_vars

\* Call c resolves in this step.
Resolves(c) == pc[c] # "done" /\ pc'[c] = "done"

\* C12: a call whose browser commands threw because its session died
\* resolves with a failed record, and the dead session is not put in
\* browserPool when the call resolves.
C12_DeadSessionDiscarded ==
  [][\A c \in Calls :
       (Resolves(c) /\ browser[c] # 0 /\ sess[browser[c]] = "dead" /\ ~lastResult'.success)
         => /\ lastResult'.scraped_keywords = <<>> /\ lastResult'.surface_keywords = <<>>
            /\ \A i \in 1..Len(browserPool') : browserPool'[i] # browser[c]]_vars

\* ------------------------------------------------------------- the pipeline
\* The commands of the two strategies and of the consent-dismiss retry.
ExtractionOps == {"content", "scan", "surface", "acceptCookies", "click", "settle"}

Count(seq, x) == Cardinality({i \in 1..Len(seq) : seq[i] = x})

\* C13: when page.goto or the settle delay throws, the record is a failure
\* with both keyword fields empty and the error "Timeout: <message>", no
\* page.content(), no scan, no frame lookup and no acceptCookies is issued,
\* whatever the site holds, and the call then closes its page and releases
\* its session before it resolves with that record.
C13_NavigationFailureStopsPipeline ==
  [][\A c \in Calls :
       /\ \A site \in Sites :
            (site.nav # "ok" /\ site.fault \notin {"newPage", "setup"} /\ Work(c, site))
              => /\ ~result'[c].success
                 /\ result'[c].scraped_keywords = <<>>
                 /\ result'[c].surface_keywords = <<>>
                 /\ result'[c].error = "Timeout: " \o NavigationTimeout
                 /\ \A i \in 1..Len(ops'[c]) : ops'[c][i] \notin ExtractionOps
                 /\ ops'[c][Len(ops'[c])] = "goto"
                 /\ page'[c] = "open"
                 /\ pc'[c] = "closing"
       /\ (Resolves(c) /\ pc[c] = "closing" /\ ops[c][Len(ops[c])] = "goto")
            => /\ lastResult' = result[c]
               /\ lastOps' = ops[c]
               /\ openPages' = openPages - 1
               /\ page'[c] = "none"
               /\ ReleasedOnce(browser[c])]_vars

\* A call whose navigation timed out after two ticks has resolved: its page
\* is closed and its session, alive, is back in the free-list.
C13_Witness ==
  /\ lastResult = NavigationFailure(NavigationTimeout, MaxClock)
  /\ pc[PipeCalls] = "done"
  /\ browserPool = <<PipeCalls>>
  /\ sess[PipeCalls] = "alive"
  /\ openPages = 0

\* The site lets the first pass of both strategies run to its end.
FirstPassCompletes(site) ==
  site.nav = "ok" /\ site.fault \notin {"newPage", "setup", "content"}

\* C14: acceptCookies runs if and only if both strategies returned the empty
\* string on the first pass; when it runs, at most one element is clicked and
\* page.content() with its scan and extractSurfaceKeywords are each run once
\* more (a retry whose two second delay itself throws aside), so that no
\* strategy runs more than twice in one call.
C14_RetryOnceWhenBothEmpty ==
  [][\A c \in Calls : \A site \in Sites :
       (FirstPassCompletes(site) /\ Work(c, site))
         => LET bothEmpty == /\ extractKeywordsFromHtml(site.html[1]) = <<>>
                             /\ extractSurfaceKeywords(site.frame[1]) = <<>>
                issued == ops'[c]
                retried == Count(issued, "acceptCookies") > 0
            IN /\ retried <=> bothEmpty
               /\ Count(issued, "acceptCookies") <= 1
               /\ Count(issued, "click") <= 1
               /\ Count(issued, "content") <= 2
               /\ Count(issued, "scan") <= 2
               /\ Count(issued, "surface") <= 2
               /\ (retried /\ issued[Len(issued)] # "settle")
                    => /\ Count(issued, "content") = 2
                       /\ Count(issued, "scan") = 2
                       /\ Count(issued, "surface") = 2]_vars

\* C15: once the navigation has succeeded, a browser command failing inside
\* a strategy (page.content(), the lookup of #master-1, the element query or
\* the search for a consent element) counts as no keywords from that
\* strategy: the record the call produces has success = TRUE.
C15_StrategyFailureNeverFailsJob ==
  [][\A c \in Calls : \A site \in Sites :
       (site.nav = "ok" /\ site.fault \in {"none", "content", "content2"} /\ Work(c, site))
         => result'[c].success]_vars

\* ------------------------------------------------- the extraction strategies
\* The five pairs of markers in the order of priority the pipeline promises:
\* entity-escaped terms, plain "terms", terms=, keyWords, keywords.
PriorityOrder == <<
  [start |-> <<"&", "quot;", "terms", "&", "quot;", ":", "&", "quot;">>,
   end |-> <<"&", "quot;", ",">>],
  [start |-> <<"\"", "terms", "\"", ":", "\"">>, end |-> <<"\"", ",">>],
  [start |-> <<"terms", "=">>, end |-> <<"&">>],
  [start |-> <<"\"", "keyWords", "\"", ":", "\"">>, end |-> <<"\"", ",">>],
  [start |-> <<"\"", "keywords", "\"", ":", "\"">>, end |-> <<"\"", ",">>] >>

\* Marker pat stands in s at position i.
OccursAt(s, pat, i) ==
  /\ i >= 1 /\ i + Len(pat) - 1 <= Len(s)
  /\ SubSeq(s, i, i + Len(pat) - 1) = pat

\* The trimmed text between the first occurrence of the start marker of a
\* pair and the next end marker: a set with that text, empty when the start
\* marker is absent or no end marker follows it.
TextBetween(s, pair) ==
  {Trim(SubSeq(s, i + Len(pair.start), j - 1)) :
     <<i, j>> \in {ij \in (1..Len(s)) \X (1..Len(s)) :
                    /\ OccursAt(s, pair.start, ij[1])
                    /\ \A i2 \in 1..(ij[1] - 1) : ~OccursAt(s, pair.start, i2)
                    /\ ij[2] >= ij[1] + Len(pair.start)
                    /\ OccursAt(s, pair.end, ij[2])
                    /\ \A j2 \in (ij[1] + Len(pair.start))..(ij[2] - 1) :
                         ~OccursAt(s, pair.end, j2)}}

\* The pairs that qualify in s: their text exists and is not empty.
Qualifying(s) == {k \in 1..Len(PriorityOrder) : TextBetween(s, PriorityOrder[k]) \ {<<>>} # {}}

\* C16: extractKeywordsFromHtml returns the trimmed text between the first
\* start marker and the next end marker of the first pair, in the order
\* entity-escaped terms, "terms", terms=, keyWords, keywords, whose text is
\* not empty, wherever the pairs stand in the document; a pair whose start
\* marker is absent, whose end marker is missing or whose text is empty is
\* skipped, and the result is the empty string when no pair qualifies.
C16_FirstQualifyingPairWins ==
  returned = "html" =>
    IF Qualifying(pageSource) = {}
      THEN scrapedKeywords = <<>>
      ELSE \E k \in Qualifying(pageSource) :
             /\ \A k2 \in Qualifying(pageSource) : k <= k2
             /\ scrapedKeywords \in TextBetween(pageSource, PriorityOrder[k])

\* A document with terms=k3& ahead of the entity-escaped pair around " k1 ":
\* the entity-escaped pair wins and its text comes back trimmed.
C16_Witness ==
  /\ returned = "html"
  /\ pageSource = <<"terms", "=", "k3", "&">>
                    \o PriorityOrder[1].start \o <<" ", "k1", " ">> \o PriorityOrder[1].end
  /\ Qualifying(pageSource) = {1, 3}
  /\ scrapedKeywords = <<"k1">>

\* The places among the first ten matches of the frame whose text, read
\* without error and trimmed, is not empty.
KeptPlaces(frame) ==
  {i \in 1..Len(frame.elements) :
     i <= 10 /\ frame.elements[i].ok /\ Trim(frame.elements[i].text) # <<>>}

\* The j-th of them in discovery order.
KeptAt(frame, j) ==
  CHOOSE i \in KeptPlaces(frame) : Cardinality({k \in KeptPlaces(frame) : k < i}) = j - 1

\* C17: for a frame with k matches extractSurfaceKeywords returns the
\* trimmed, non-empty texts of the first min(k, 10) of them, in discovery
\* order, with ", " between one and the next; matches beyond the tenth add
\* nothing; the result is the empty string when the frame is absent or has
\* no content frame.
C17_FirstTenJoinedInOrder ==
  returned = "surface" =>
    IF iframe.kind # "frame"
      THEN surfaceKeywords = <<>>
      ELSE LET m == Cardinality(KeptPlaces(iframe))
           IN /\ Len(surfaceKeywords) = IF m = 0 THEN 0 ELSE 3 * m - 2
              /\ \A j \in 1..m :
                   <<surfaceKeywords[3 * j - 2]>> = Trim(iframe.elements[KeptAt(iframe, j)].text)
              /\ \A j \in 1..(m - 1) :
                   surfaceKeywords[3 * j - 1] = "," /\ surfaceKeywords[3 * j] = " "

\* A frame with twelve matches, all with text: ten keywords come back, the
\* last of them the tenth match.
C17_Witness ==
  /\ returned = "surface"
  /\ iframe.kind = "frame"
  /\ Len(iframe.elements) = 12
  /\ Cardinality(KeptPlaces(iframe)) = 10
  /\ Len(surfaceKeywords) = 28
  /\ surfaceKeywords[1] = "e1"
  /\ surfaceKeywords[28] = "e10"

\* The puppeteer.launch of call c throws in this step.
LaunchFails(c) == pc[c] = "launch" /\ pc'[c] = "done"

\* C18: when puppeteer.launch throws inside getBrowser, the increment of
\* activeBrowsers made before the launch is taken back, so that the counter
\* never exceeds the sessions launched and not closed plus the launches
\* under way.
C18_FailedLaunchRestoresCount ==
  [][/\ \A c \in Calls : LaunchFails(c) => activeBrowsers' = activeBrowsers - 1
     /\ activeBrowsers' <= Cardinality(LiveSessions') + Cardinality(Launching')]_vars

\* C19: with cleanup() interleaved with calls in flight and followed by
\* further acquires and releases, activeBrowsers stays within
\* 0..MAX_BROWSERS and the sessions launched and not closed never exceed
\* MAX_BROWSERS = 3.
C19_CounterAndSessionsWithinCapacity ==
  /\ activeBrowsers >= 0
  /\ activeBrowsers <= MAX_BROWSERS
  /\ Cardinality(LiveSessions) <= MAX_BROWSERS

\* The requests whose handler has not sent its response yet.
InFlight == Running \cup Waiting

====
